---- MODULE Spec2Model ----
(***************************************************************************)
(* Commission rules engine of Stallion Motors (src/commission_calc.py).    *)
(*                                                                         *)
(* Amounts of money are integers counted in mills (1/1000 of a dollar), so *)
(* that a fraction of a cent is representable; a rate is an integer        *)
(* counted in thousandths (0.04 is 40).  The inputs of the model are       *)
(* chosen so that every product rate * amount is a whole number of mills.  *)
(* Python's round(x, 2) is the rounding to a whole number of cents (10     *)
(* mills), ties going to the even cent.  A binary float holds few decimal  *)
(* amounts exactly, so where a float lands on a tie is not what this       *)
(* arithmetic says; the inputs are chosen so that the only ties rounded    *)
(* are amounts a float holds exactly (0.125, 200.125, 775.125), on which   *)
(* the two agree.  The order in which floats are summed is not modelled.   *)
(***************************************************************************)
EXTENDS Integers, Sequences, FiniteSets, TLC

VARIABLES
    DEFAULT_CONFIG,  \* the module-level dict: its top-level entries
    heap,            \* the objects the dicts' entries refer to: reference -> object
    cfg,             \* the caller's configuration dict, or NoneObj
    n_overrides,     \* how many override operations the caller has performed
    df,              \* the caller's DataFrame of sales
    call             \* the last call of the engine: its arguments and what it returned

vars == <<DEFAULT_CONFIG, heap, cfg, n_overrides, df, call>>

----------------------------------------------------------------------------
(* Bounds *)

MaxOverrides == 2
MaxSales == 3

----------------------------------------------------------------------------
(* Python values *)

\* None in a numeric slot (a rate, a Profit, a Price)
None == -2000000001
\* float('nan'), the tabular null of a numeric column
NaN == -2000000002
\* None passed as the config or the target_month argument
NoneObj == [py |-> "None"]
\* an exception raised out of the call
Raised(exc) == [raised |-> exc]

Dollars(d) == d * 1000
Cents(c) == c * 10

\* bool(v) of a numeric value: None and 0 are falsy, NaN is truthy
Truthy(v) == v # None /\ v # 0

\* a + b on floats
FAdd(a, b) == IF a = NaN \/ b = NaN THEN NaN ELSE a + b

\* rate * x on floats, rate in thousandths
FMul(rate, x) ==
    IF x = NaN THEN NaN
    ELSE rate * (x \div 1000) + (rate * (x % 1000)) \div 1000

\* round(x, 2): to the nearest cent, a tie to the even cent; nan stays nan
Round2(x) ==
    IF x = NaN THEN NaN
    ELSE LET q == x \div 10
             r == x % 10
         IN  IF r < 5 THEN 10 * q
             ELSE IF r > 5 THEN 10 * (q + 1)
             ELSE IF q % 2 = 0 THEN 10 * q ELSE 10 * (q + 1)

\* d.get(key, default) on a dict
Get(d, key, default) == IF key \in DOMAIN d THEN d[key] ELSE default

\* d.get(key, {}) where the entry refers to a nested object
GetObject(d, key, default) == IF key \in DOMAIN d THEN heap[d[key]] ELSE default

EmptyDict == [k \in {} |-> 0]

----------------------------------------------------------------------------
(* DEFAULT_CONFIG *)

DefaultTierBonuses ==
    << <<Dollars(200000), 25>>, <<Dollars(150000), 20>>,
       <<Dollars(100000), 12>>, <<Dollars(50000), 6>> >>

DefaultUnitTargetBonus ==
    [units_target |-> 8, units_target_bonus_amount |-> Dollars(500)]

DefaultConfigDict ==
    [base_commission_rate_on_profit |-> 40,
     base_commission_rate_on_price  |-> None,
     returning_customer_bonus       |-> Dollars(75),
     per_sale_flat_spiff            |-> 0,
     monthly_quota_revenue          |-> Dollars(80000),
     quota_accelerator_rate         |-> 15,
     tier_bonuses                   |-> "DEFAULT_CONFIG.tier_bonuses",
     unit_target_bonus              |-> "DEFAULT_CONFIG.unit_target_bonus",
     model_spiffs                   |-> "DEFAULT_CONFIG.model_spiffs"]

DefaultHeap ==
    ("DEFAULT_CONFIG.tier_bonuses" :> DefaultTierBonuses)
    @@ ("DEFAULT_CONFIG.unit_target_bonus" :> DefaultUnitTargetBonus)
    @@ ("DEFAULT_CONFIG.model_spiffs" :> EmptyDict)

NestedKeys == {"tier_bonuses", "unit_target_bonus", "model_spiffs"}

\* the value of a configuration with its nested objects read through the heap
Deep(d, h) == [k \in DOMAIN d |-> IF k \in NestedKeys THEN h[d[k]] ELSE d[k]]

\* dict.copy(): a new top-level dict whose entries are the same objects
recommended_config == DEFAULT_CONFIG

----------------------------------------------------------------------------
(* compute_sale_commission *)

\* cfg = DEFAULT_CONFIG if config is None else config
cfg_of(config) == IF config = NoneObj THEN DEFAULT_CONFIG ELSE config

\* float(row.get(key, 0.0) or 0.0)
float_or_zero(row, key) ==
    LET v == Get(row, key, 0) IN IF Truthy(v) THEN v ELSE 0

\* the base commission before rounding
base_of(c, profit, price) ==
    IF Truthy(Get(c, "base_commission_rate_on_price", None))
    THEN FMul(c["base_commission_rate_on_price"], price)
    ELSE FMul(c["base_commission_rate_on_profit"], profit)

\* the model spiff plus the per-sale flat spiff, before rounding
spiff_of(c, model) ==
    FAdd(Get(GetObject(c, "model_spiffs", EmptyDict), model, 0),
         Get(c, "per_sale_flat_spiff", 0))

\* the returning-customer bonus, before rounding
returning_of(c, customer_type) ==
    IF customer_type = "Returning"
    THEN Get(c, "returning_customer_bonus", 0) ELSE 0

total_of_rounded(base, spiff, returning) ==
    FAdd(FAdd(Round2(base), Round2(spiff)), Round2(returning))

\* the emitted Total_Sale_Level
total_sale_level(base, spiff, returning) ==
    Round2(FAdd(FAdd(base, spiff), returning))

compute_sale_commission(row, config) ==
    LET c == cfg_of(config)
        profit == float_or_zero(row, "Profit")
        price == float_or_zero(row, "Price")
        model == Get(row, "Vehicle_Model", "None")
        customer_type == Get(row, "Customer_Type", "New")
        base == base_of(c, profit, price)
        spiff == spiff_of(c, model)
        returning == returning_of(c, customer_type)
    IN  [Base_Commission  |-> Round2(base),
         Spiff            |-> Round2(spiff),
         Returning_Bonus  |-> Round2(returning),
         Total_Sale_Level |-> total_sale_level(base, spiff, returning)]

----------------------------------------------------------------------------
(* compute_leaderboard *)

\* A DataFrame: its column labels and its rows, in index order
Frame(columns, rows) == [columns |-> columns, rows |-> rows]

SalesColumns ==
    <<"Sale_ID", "Date", "Vehicle_Model", "Price", "Profit", "Quantity",
      "Customer_Type", "Salesperson">>

SaleCommissionColumns ==
    <<"Base_Commission", "Spiff", "Returning_Bonus", "Total_Sale_Level">>

\* Series.dt.to_period('M') of a date written yyyymmdd
to_period_M(date) == [freq |-> "M", ordinal |-> date \div 100]

\* pd.Period(s): the frequency is read off the string
Period(s) ==
    CASE s = "2025-10" -> [freq |-> "M", ordinal |-> 202510]
      [] s = "2025-11" -> [freq |-> "M", ordinal |-> 202511]
      [] s = "2025-12" -> [freq |-> "M", ordinal |-> 202512]
      [] s = "2025-10-05" -> [freq |-> "D", ordinal |-> 20251005]

\* the order of str on the salespersons' names
SalespersonOrder == <<"Aisha Bello", "Chidi Okeke">>
str_rank(s) == CHOOSE i \in DOMAIN SalespersonOrder : SalespersonOrder[i] = s

\* dfc['Month'] = dfc['Date'].dt.to_period('M')
with_month(frame) ==
    Frame(frame.columns \o <<"Month">>,
          [i \in 1..Len(frame.rows) |->
              frame.rows[i] @@ ("Month" :> to_period_M(frame.rows[i]["Date"]))])

\* dfc.apply(lambda r: pd.Series(compute_sale_commission(r, cfg)), axis=1):
\* on a frame without rows, DataFrame.apply returns a copy of the frame
apply_sale_commission(dfc, c) ==
    IF Len(dfc.rows) = 0 THEN dfc
    ELSE Frame(SaleCommissionColumns,
               [i \in 1..Len(dfc.rows) |-> compute_sale_commission(dfc.rows[i], c)])

\* pd.concat([a, b], axis=1) of two frames with the same index
concat_axis1(a, b) ==
    Frame(a.columns \o b.columns,
          [i \in 1..Len(a.rows) |-> b.rows[i] @@ a.rows[i]])

count_label(columns, label) ==
    Cardinality({i \in DOMAIN columns : columns[i] = label})

\* the sum of a column over the rows of one group; a null is skipped
RECURSIVE sum_column(_, _, _)
sum_column(rows, key, col) ==
    IF rows = <<>> THEN 0
    ELSE LET r == Head(rows)
             v == IF <<r["Salesperson"], r["Month"]>> = key /\ r[col] # NaN
                  THEN r[col] ELSE 0
         IN  v + sum_column(Tail(rows), key, col)

key_less(a, b) ==
    \/ str_rank(a[1]) < str_rank(b[1])
    \/ str_rank(a[1]) = str_rank(b[1]) /\ a[2].ordinal < b[2].ordinal

RECURSIVE sorted_keys(_)
sorted_keys(S) ==
    IF S = {} THEN <<>>
    ELSE LET m == CHOOSE x \in S : \A y \in S : y = x \/ key_less(x, y)
         IN  <<m>> \o sorted_keys(S \ {m})

RECURSIVE keys_by_appearance(_, _)
keys_by_appearance(rows, seen) ==
    IF rows = <<>> THEN <<>>
    ELSE LET k == <<Head(rows)["Salesperson"], Head(rows)["Month"]>>
         IN  IF k \in seen THEN keys_by_appearance(Tail(rows), seen)
             ELSE <<k>> \o keys_by_appearance(Tail(rows), seen \cup {k})

group_keys_unsorted(rows) == keys_by_appearance(rows, {})

\* the group keys of groupby(['Salesperson','Month']), in sorted order
group_keys(rows) ==
    sorted_keys({<<rows[i]["Salesperson"], rows[i]["Month"]>> : i \in 1..Len(rows)})

AggColumns ==
    <<"Price", "Quantity", "Profit", "Base_Commission", "Spiff", "Returning_Bonus">>

\* dfc.groupby(['Salesperson','Month']).agg(...).reset_index()
groupby_agg(dfc) ==
    IF \E k \in {"Salesperson", "Month"} : count_label(dfc.columns, k) # 1
    THEN Raised("ValueError")
    ELSE IF \E i \in DOMAIN AggColumns : count_label(dfc.columns, AggColumns[i]) = 0
    THEN Raised("KeyError")
    ELSE LET keys == group_keys(dfc.rows)
         IN  [rows |-> [g \in 1..Len(keys) |->
                 [Salesperson           |-> keys[g][1],
                  Month                 |-> keys[g][2],
                  Revenue               |-> sum_column(dfc.rows, keys[g], "Price"),
                  Units                 |-> sum_column(dfc.rows, keys[g], "Quantity"),
                  Profit                |-> sum_column(dfc.rows, keys[g], "Profit"),
                  Sale_Base_Com         |-> sum_column(dfc.rows, keys[g], "Base_Commission"),
                  Sale_Spiffs           |-> sum_column(dfc.rows, keys[g], "Spiff"),
                  Sale_ReturningBonuses |-> sum_column(dfc.rows, keys[g], "Returning_Bonus")]]]

RECURSIVE first_tier_strict(_, _)
first_tier_strict(revenue, tiers) ==
    IF tiers = <<>> THEN 0
    ELSE IF revenue > Head(tiers)[1] THEN FMul(Head(tiers)[2], revenue)
    ELSE first_tier_strict(revenue, Tail(tiers))

apply_tier_bonus_strict(revenue, c) ==
    first_tier_strict(revenue, GetObject(c, "tier_bonuses", <<>>))

\* for threshold, pct in tiers: if revenue >= threshold: return revenue * pct
RECURSIVE first_tier(_, _)
first_tier(revenue, tiers) ==
    IF tiers = <<>> THEN 0
    ELSE IF revenue >= Head(tiers)[1] THEN FMul(Head(tiers)[2], revenue)
    ELSE first_tier(revenue, Tail(tiers))

_apply_tier_bonus(revenue, c) ==
    first_tier(revenue, GetObject(c, "tier_bonuses", <<>>))

quota_acc_whole_revenue(r, quota, acc_rate) ==
    IF r > quota THEN Round2(FMul(acc_rate, r)) ELSE 0

_quota_acc(r, quota, acc_rate) ==
    IF r > quota THEN Round2(FMul(acc_rate, r - quota)) ELSE 0

\* units_bonus_amt if u >= units_t else 0.0
unit_target_bonus_of(u, c) ==
    LET d == GetObject(c, "unit_target_bonus", EmptyDict)
    IN  IF u >= Get(d, "units_target", 999999)
        THEN Get(d, "units_target_bonus_amount", 0) ELSE 0

total_commission_without_unit_bonus(base, tier, acc, unit) ==
    Round2(base + tier + acc)

\* (Base_Commission + Tier_Bonus + Quota_Accelerator + Unit_Target_Bonus).round(2)
total_commission(base, tier, acc, unit) ==
    Round2(base + tier + acc + unit)

\* the monthly columns added to one row of the aggregate
monthly_row(g, c) ==
    LET tier == Round2(_apply_tier_bonus(g.Revenue, c))
        acc  == _quota_acc(g.Revenue, Get(c, "monthly_quota_revenue", 0),
                           Get(c, "quota_accelerator_rate", 0))
        unit == unit_target_bonus_of(g.Units, c)
        base == g.Sale_Base_Com + g.Sale_Spiffs + g.Sale_ReturningBonuses
    IN  g @@ [Tier_Bonus        |-> tier,
              Quota_Accelerator |-> acc,
              Unit_Target_Bonus |-> unit,
              Base_Commission   |-> base,
              Total_Commission  |-> total_commission(base, tier, acc, unit)]

\* a precedes b in sort_values(['Month','Revenue'], ascending=[False,False])
sorts_before(a, b) ==
    \/ a.Month.ordinal > b.Month.ordinal
    \/ a.Month.ordinal = b.Month.ordinal /\ a.Revenue > b.Revenue

RECURSIVE insert_sorted(_, _)
insert_sorted(sorted, x) ==
    IF sorted = <<>> THEN <<x>>
    ELSE IF sorts_before(x, Head(sorted)) THEN <<x>> \o sorted
    ELSE <<Head(sorted)>> \o insert_sorted(Tail(sorted), x)

\* the stable sort: rows that tie keep the order they had
RECURSIVE sort_values(_)
sort_values(rows) ==
    IF rows = <<>> THEN <<>>
    ELSE insert_sorted(sort_values(SubSeq(rows, 1, Len(rows) - 1)), rows[Len(rows)])

\* agg[agg['Month'] == target_month], a string first made a Period
filter_month(rows, target_month) ==
    IF target_month = NoneObj THEN rows
    ELSE LET tm == IF "str" \in DOMAIN target_month
                   THEN Period(target_month.str) ELSE target_month
         IN  SelectSeq(rows, LAMBDA g : g.Month = tm)

compute_leaderboard(frame, target_month, config) ==
    LET c == cfg_of(config)
        dfc0 == with_month(frame)
        dfc == concat_axis1(dfc0, apply_sale_commission(dfc0, c))
        agg == groupby_agg(dfc)
    IN  IF "raised" \in DOMAIN agg THEN agg
        ELSE LET monthly == [g \in 1..Len(agg.rows) |-> monthly_row(agg.rows[g], c)]
             IN  [rows |-> sort_values(filter_month(monthly, target_month))]

----------------------------------------------------------------------------
(* Inputs *)

\* rows handed to compute_sale_commission: Profit and Price may be absent,
\* None or NaN
ProfitCells ==
    {EmptyDict} \cup
    {("Profit" :> v) : v \in {None, NaN, 0, Dollars(12000), Dollars(11000) + 100}}

PriceCells ==
    {EmptyDict} \cup {("Price" :> v) : v \in {None, NaN, Dollars(50000)}}

SaleRows ==
    {a @@ b @@ [Vehicle_Model |-> m, Customer_Type |-> t] :
        a \in ProfitCells, b \in PriceCells,
        m \in {"Toyota RAV4", "Honda CR-V"}, t \in {"New", "Returning"}}

Sale(id, date, model, price, profit, quantity, customer_type, salesperson) ==
    [Sale_ID |-> id, Date |-> date, Vehicle_Model |-> model, Price |-> price,
     Profit |-> profit, Quantity |-> quantity, Customer_Type |-> customer_type,
     Salesperson |-> salesperson]

\* the ledger the frames of the model are drawn from
Ledger ==
    <<Sale("S1", 20251005, "Toyota RAV4", Dollars(50000), Dollars(12000), 1, "New", "Aisha Bello"),
     Sale("S2", 20251007, "Toyota RAV4", Dollars(30000), Dollars(11000) + 100, 7, "Returning", "Aisha Bello"),
     Sale("S3", 20251012, "Honda CR-V", Dollars(80000), Dollars(9000), 1, "New", "Chidi Okeke"),
     Sale("S4", 20251030, "Honda CR-V", Dollars(120000), Dollars(20000), 1, "Returning", "Chidi Okeke"),
     Sale("S5", 20251103, "Toyota RAV4", Dollars(90002), Dollars(15000), 1, "New", "Aisha Bello"),
     Sale("S6", 20251121, "Honda CR-V", Dollars(50001), 0 - Dollars(500), 8, "Returning", "Chidi Okeke")>>

\* the frames of at most n different sales of the ledger, in ledger order
FramesUpTo(n) ==
    {Frame(SalesColumns, rows) :
        rows \in UNION {{r \in [1..k -> {Ledger[i] : i \in DOMAIN Ledger}] :
                            \A i, j \in 1..k : i < j => r[i].Date < r[j].Date} :
                        k \in 0..n}}

\* the demo frame at the end of commission_calc.py
SampleFrame ==
    Frame(SalesColumns,
          <<Sale("S1", 20251005, "Toyota RAV4", Dollars(50000), Dollars(12000), 1, "New", "Aisha Bello"),
            Sale("S2", 20251007, "Toyota RAV4", Dollars(48000), Dollars(11000), 1, "Returning", "Aisha Bello")>>)

\* the rows of the caller's session
SessionRows ==
    {[Profit |-> Dollars(12000), Price |-> Dollars(50000),
      Vehicle_Model |-> "Toyota RAV4", Customer_Type |-> "New"],
     [Profit |-> Dollars(11000) + 100, Price |-> Dollars(48000),
      Vehicle_Model |-> "Honda CR-V", Customer_Type |-> "Returning"]}

TargetMonths ==
    {NoneObj, [str |-> "2025-10"], to_period_M(20251101), [str |-> "2025-12"]}

\* what a caller sets a top-level entry to
TopLevelOverrides ==
    {<<"base_commission_rate_on_price", 10>>,
     <<"returning_customer_bonus", Dollars(100)>>,
     <<"monthly_quota_revenue", Dollars(50000)>>}

AscendingTierBonuses ==
    << <<Dollars(50000), 6>>, <<Dollars(100000), 12>>, <<Dollars(200000), 25>> >>

\* what a caller replaces a nested entry by: a new object of the caller's
NestedOverrides ==
    {<<"tier_bonuses", AscendingTierBonuses>>,
     <<"unit_target_bonus", [units_target |-> 2, units_target_bonus_amount |-> Dollars(100)]>>,
     <<"model_spiffs", ("Toyota RAV4" :> Dollars(200))>>}

UnitTargetOverrides ==
    {<<"units_target", 2>>, <<"units_target_bonus_amount", Dollars(500) + 4>>}

CallerRef(key) ==
    CASE key = "tier_bonuses" -> "caller.tier_bonuses"
      [] key = "unit_target_bonus" -> "caller.unit_target_bonus"
      [] key = "model_spiffs" -> "caller.model_spiffs"

NoCall == [fn |-> "none"]

----------------------------------------------------------------------------
(* The caller's session: a configuration is obtained and overridden, and    *)
(* the engine is called.                                                    *)

Init ==
    /\ DEFAULT_CONFIG = DefaultConfigDict
    /\ heap = DefaultHeap
    /\ cfg = NoneObj
    /\ n_overrides = 0
    /\ df = SampleFrame
    /\ call = NoCall

\* cfg = recommended_config()
RecommendedConfig ==
    /\ cfg' = recommended_config
    /\ UNCHANGED <<DEFAULT_CONFIG, heap, n_overrides, df, call>>

\* cfg[key] = value
SetTopLevel ==
    /\ cfg # NoneObj
    /\ n_overrides < MaxOverrides
    /\ \E kv \in TopLevelOverrides : cfg' = [cfg EXCEPT ![kv[1]] = kv[2]]
    /\ n_overrides' = n_overrides + 1
    /\ UNCHANGED <<DEFAULT_CONFIG, heap, df, call>>

\* cfg[key] = a new list or dict
ReplaceNested ==
    /\ cfg # NoneObj
    /\ n_overrides < MaxOverrides
    /\ \E kv \in NestedOverrides :
          /\ cfg' = [cfg EXCEPT ![kv[1]] = CallerRef(kv[1])]
          /\ heap' = (CallerRef(kv[1]) :> kv[2]) @@ heap
    /\ n_overrides' = n_overrides + 1
    /\ UNCHANGED <<DEFAULT_CONFIG, df, call>>

\* cfg['model_spiffs'][model] = amount
SetModelSpiff ==
    /\ cfg # NoneObj
    /\ n_overrides < MaxOverrides
    /\ \E m \in {"Toyota RAV4"}, v \in {Dollars(200)} :
          heap' = [heap EXCEPT ![cfg["model_spiffs"]] = (m :> v) @@ @]
    /\ n_overrides' = n_overrides + 1
    /\ UNCHANGED <<DEFAULT_CONFIG, cfg, df, call>>

\* cfg['unit_target_bonus'][field] = value
SetUnitTargetField ==
    /\ cfg # NoneObj
    /\ n_overrides < MaxOverrides
    /\ \E fv \in UnitTargetOverrides :
          heap' = [heap EXCEPT ![cfg["unit_target_bonus"]] = (fv[1] :> fv[2]) @@ @]
    /\ n_overrides' = n_overrides + 1
    /\ UNCHANGED <<DEFAULT_CONFIG, cfg, df, call>>

\* cfg['tier_bonuses'].append((threshold, pct))
AppendTier ==
    /\ cfg # NoneObj
    /\ n_overrides < MaxOverrides
    /\ heap' = [heap EXCEPT ![cfg["tier_bonuses"]] = Append(@, <<Dollars(25000), 3>>)]
    /\ n_overrides' = n_overrides + 1
    /\ UNCHANGED <<DEFAULT_CONFIG, cfg, df, call>>

\* compute_sale_commission(row, config)
ComputeSaleOn(rows) ==
    /\ \E row \in rows, config \in {NoneObj, cfg} :
          call' = [fn |-> "compute_sale_commission", row |-> row, config |-> config,
                   ret |-> compute_sale_commission(row, config)]
    /\ UNCHANGED <<DEFAULT_CONFIG, heap, cfg, n_overrides, df>>

ComputeSale == ComputeSaleOn(SaleRows)

ComputeSessionSale == ComputeSaleOn(SessionRows)

\* compute_leaderboard(df, target_month, config)
ComputeLeaderboard ==
    /\ \E target_month \in TargetMonths, config \in {NoneObj, cfg} :
          call' = [fn |-> "compute_leaderboard", target_month |-> target_month,
                   config |-> config,
                   ret |-> compute_leaderboard(df, target_month, config)]
    /\ UNCHANGED <<DEFAULT_CONFIG, heap, cfg, n_overrides, df>>

\* the caller hands the same sales over in another order: two rows swapped
Reorder ==
    /\ \E i, j \in 1..Len(df.rows) :
          /\ i < j
          /\ df' = Frame(df.columns,
                         [df.rows EXCEPT ![i] = df.rows[j], ![j] = df.rows[i]])
    /\ UNCHANGED <<DEFAULT_CONFIG, heap, cfg, n_overrides, call>>

Next ==
    \/ RecommendedConfig
    \/ SetTopLevel
    \/ ReplaceNested
    \/ SetModelSpiff
    \/ SetUnitTargetField
    \/ AppendTier
    \/ ComputeSessionSale
    \/ ComputeLeaderboard
    \/ Reorder

Spec == Init /\ [][Next]_vars

----------------------------------------------------------------------------
(* The engine under configurations built before the run: the sale          *)
(* commission over every row, the leaderboard over every frame of the      *)
(* ledger.                                                                 *)

\* a caller's configuration: the top-level dict and the objects it owns
CallerConfig(top, nested) ==
    [dict |-> [k \in DOMAIN DefaultConfigDict |->
                  IF k \in DOMAIN top THEN top[k]
                  ELSE IF k \in DOMAIN nested THEN CallerRef(k)
                  ELSE DefaultConfigDict[k]],
     objects |-> [r \in {CallerRef(k) : k \in DOMAIN nested} |->
                  LET k == CHOOSE k \in DOMAIN nested : CallerRef(k) = r IN nested[k]]]

SubCentUnitBonusConfig ==
    CallerConfig(EmptyDict,
                 [unit_target_bonus |->
                     [units_target |-> 8, units_target_bonus_amount |-> Dollars(500) + 4]])

AscendingTiersConfig == CallerConfig(EmptyDict, [tier_bonuses |-> AscendingTierBonuses])

PriceBasedConfig ==
    CallerConfig([base_commission_rate_on_price |-> 10, per_sale_flat_spiff |-> 125,
                  monthly_quota_revenue |-> Dollars(50000),
                  quota_accelerator_rate |-> 12],
                 [model_spiffs |-> ("Toyota RAV4" :> Dollars(200))])

FlatSpiffConfig == CallerConfig([per_sale_flat_spiff |-> 125], EmptyDict)

ZeroPriceRateConfig ==
    CallerConfig([base_commission_rate_on_price |-> 0,
                  returning_customer_bonus |-> Dollars(75) + 4], EmptyDict)

NoCallerConfig == [dict |-> NoneObj, objects |-> EmptyDict]

SaleConfigs ==
    {NoCallerConfig, PriceBasedConfig, FlatSpiffConfig, ZeroPriceRateConfig}

LeaderboardConfigs ==
    {NoCallerConfig, SubCentUnitBonusConfig, AscendingTiersConfig, PriceBasedConfig}

InitConfig(configs) ==
    /\ DEFAULT_CONFIG = DefaultConfigDict
    /\ \E k \in configs :
          /\ cfg = k.dict
          /\ heap = k.objects @@ DefaultHeap
    /\ n_overrides = 0
    /\ call = NoCall

InitSale == InitConfig(SaleConfigs) /\ df = SampleFrame

NextSale == ComputeSale

SpecSale == InitSale /\ [][NextSale]_vars

InitLB == InitConfig(LeaderboardConfigs) /\ df \in FramesUpTo(MaxSales)

NextLB ==
    \/ ComputeLeaderboard
    \/ Reorder

SpecLB == InitLB /\ [][NextLB]_vars

----------------------------------------------------------------------------
(* Claims about compute_sale_commission, under SpecSale *)

SaleCall == call.fn = "compute_sale_commission"

\* the key is missing from the row, or its value is None or NaN
IsNull(row, key) == key \notin DOMAIN row \/ row[key] = None \/ row[key] = NaN

BothRates(c) ==
    /\ Truthy(c["base_commission_rate_on_price"])
    /\ Truthy(c["base_commission_rate_on_profit"])

ProfitBased(c, row) == Round2(FMul(c["base_commission_rate_on_profit"], float_or_zero(row, "Profit")))

\* C1: when the configuration sets both a price-based and a profit-based
\* rate (both non-zero), the base commission is the profit rate times Profit
\* and the price rate is ignored.
C1_ProfitRateTakesPrecedence ==
    (/\ SaleCall
     /\ BothRates(cfg_of(call.config))
     /\ ~IsNull(call.row, "Profit") /\ ~IsNull(call.row, "Price"))
        => call.ret.Base_Commission = ProfitBased(cfg_of(call.config), call.row)

\* the three terms of a sale's commission before rounding
UnroundedSum(c, row) ==
    FAdd(FAdd(base_of(c, float_or_zero(row, "Profit"), float_or_zero(row, "Price")),
              spiff_of(c, Get(row, "Vehicle_Model", "None"))),
         returning_of(c, Get(row, "Customer_Type", "New")))

\* C2, as stated: Total_Sale_Level is the sum of the three emitted fields,
\* each already rounded to 2 decimals.
C2_TotalIsSumOfRoundedFields ==
    SaleCall =>
        call.ret.Total_Sale_Level =
            FAdd(FAdd(call.ret.Base_Commission, call.ret.Spiff), call.ret.Returning_Bonus)

\* C2, amended: Total_Sale_Level is the rounding to 2 decimals of the sum of
\* the three terms before they are rounded.
C2_TotalIsRoundedSum ==
    SaleCall =>
        call.ret.Total_Sale_Level = Round2(UnroundedSum(cfg_of(call.config), call.row))

C2_Witness ==
    /\ SaleCall
    /\ call.ret.Total_Sale_Level # NaN
    /\ call.ret.Base_Commission = Dollars(440)
    /\ call.ret.Spiff = Cents(12)
    /\ call.ret.Returning_Bonus = Dollars(75)
    /\ call.ret.Total_Sale_Level = Dollars(515) + Cents(13)

\* the row with its absent or null Profit and Price set to 0
ZeroFilled(row) ==
    [k \in DOMAIN row \cup {"Profit", "Price"} |->
        IF k \in {"Profit", "Price"} /\ IsNull(row, k) THEN 0 ELSE row[k]]

\* C4: a sale whose Profit or Price is absent, None or NaN gets the breakdown
\* of the same sale with that input 0, and no field of it is NaN.
C4_NullInputIsZero ==
    (SaleCall /\ (IsNull(call.row, "Profit") \/ IsNull(call.row, "Price")))
        => /\ call.ret = compute_sale_commission(ZeroFilled(call.row), call.config)
           /\ \A f \in DOMAIN call.ret : call.ret[f] # NaN

----------------------------------------------------------------------------
(* Claim about the shared default, under Spec *)

\* C3: whatever overrides the caller performs on the configuration obtained
\* from recommended_config(), DEFAULT_CONFIG keeps its value, and a call with
\* config=None returns what it returned before the overrides (for the first
\* demo sale: 480.00, 0.00, 0.00, 480.00).
C3_DefaultConfigUnchanged ==
    /\ Deep(DEFAULT_CONFIG, heap) = Deep(DefaultConfigDict, DefaultHeap)
    /\ (/\ SaleCall
        /\ call.config = NoneObj
        /\ call.row["Profit"] = Dollars(12000))
          => call.ret = [Base_Commission |-> Dollars(480), Spiff |-> 0,
                         Returning_Bonus |-> 0, Total_Sale_Level |-> Dollars(480)]

----------------------------------------------------------------------------
(* Claims about compute_leaderboard, under SpecLB *)

LeaderboardCall == call.fn = "compute_leaderboard"

Returned == LeaderboardCall /\ "rows" \in DOMAIN call.ret

TierList == GetObject(cfg_of(call.config), "tier_bonuses", <<>>)

TiersMet(revenue) == {i \in DOMAIN TierList : revenue >= TierList[i][1]}

\* revenue * pct of the first pair, in the configured order, that the
\* revenue meets; 0 when it meets none
FirstTierMet(revenue) ==
    IF TiersMet(revenue) = {} THEN 0
    ELSE LET i == CHOOSE m \in TiersMet(revenue) : \A n \in TiersMet(revenue) : m <= n
         IN  FMul(TierList[i][2], revenue)

\* revenue * pct of the highest threshold the revenue meets
HighestTierMet(revenue) ==
    IF TiersMet(revenue) = {} THEN 0
    ELSE LET i == CHOOSE m \in TiersMet(revenue) :
                      \A n \in TiersMet(revenue) : TierList[m][1] >= TierList[n][1]
         IN  FMul(TierList[i][2], revenue)

SortedDescending(tiers) ==
    \A i, j \in DOMAIN tiers : i < j => tiers[i][1] > tiers[j][1]

\* C5, as stated: Tier_Bonus is revenue * pct of the first tier met.
C5_TierBonusIsProduct ==
    Returned =>
        \A g \in DOMAIN call.ret.rows :
            call.ret.rows[g].Tier_Bonus = FirstTierMet(call.ret.rows[g].Revenue)

\* C5, amended: Tier_Bonus is revenue * pct of the first pair, in the
\* configured order, with revenue >= threshold, rounded to 2 decimals, and 0
\* when the revenue is below every threshold; for a list sorted descending it
\* is the rounded percentage of the highest threshold met.
C5_TierBonusIsRoundedFirstTier ==
    Returned =>
        \A g \in DOMAIN call.ret.rows :
            LET r == call.ret.rows[g] IN
            /\ r.Tier_Bonus = Round2(FirstTierMet(r.Revenue))
            /\ SortedDescending(TierList) => r.Tier_Bonus = Round2(HighestTierMet(r.Revenue))

C5_Witness ==
    /\ Returned
    /\ SortedDescending(TierList)
    /\ \E g \in DOMAIN call.ret.rows :
          LET r == call.ret.rows[g] IN
          /\ r.Revenue = Dollars(200000)
          /\ Cardinality(TiersMet(r.Revenue)) = 4
          /\ r.Tier_Bonus = Dollars(5000)
    /\ \E g \in DOMAIN call.ret.rows :
          LET r == call.ret.rows[g] IN
          /\ r.Revenue = Dollars(50001)
          /\ r.Tier_Bonus = Dollars(300) + Cents(1)

Quota == Get(cfg_of(call.config), "monthly_quota_revenue", 0)
AccRate == Get(cfg_of(call.config), "quota_accelerator_rate", 0)

\* C6, as stated: Quota_Accelerator is (revenue - quota) * rate when the
\* revenue is above the quota, and 0 otherwise.
C6_AcceleratorIsProduct ==
    Returned =>
        \A g \in DOMAIN call.ret.rows :
            LET r == call.ret.rows[g] IN
            r.Quota_Accelerator =
                IF r.Revenue > Quota THEN FMul(AccRate, r.Revenue - Quota) ELSE 0

\* C6, amended: Quota_Accelerator is (revenue - quota) * rate rounded to 2
\* decimals when the revenue is strictly above the quota, and 0 when it is
\* not; the total holds it together with the tier bonus.
C6_AcceleratorIsRoundedProduct ==
    Returned =>
        \A g \in DOMAIN call.ret.rows :
            LET r == call.ret.rows[g] IN
            /\ r.Quota_Accelerator =
                  IF r.Revenue > Quota THEN Round2(FMul(AccRate, r.Revenue - Quota)) ELSE 0
            /\ r.Total_Commission =
                  Round2(r.Base_Commission + r.Tier_Bonus + r.Quota_Accelerator
                         + r.Unit_Target_Bonus)

C6_Witness ==
    /\ Returned
    /\ Quota = Dollars(50000) /\ AccRate = 12
    /\ \E g \in DOMAIN call.ret.rows :
          LET r == call.ret.rows[g] IN
          r.Revenue = Quota /\ r.Quota_Accelerator = 0 /\ r.Tier_Bonus = Dollars(300)
    /\ \E g \in DOMAIN call.ret.rows :
          LET r == call.ret.rows[g] IN
          /\ r.Revenue = Dollars(50001)
          /\ r.Quota_Accelerator = Cents(1)
          /\ r.Tier_Bonus = Dollars(300) + Cents(1)

\* the key of the group a row of the frame falls in
GroupOf(row) == <<row["Salesperson"], to_period_M(row["Date"])>>

\* the sum, over the sales of a group, of one rounded field of the sale's
\* commission
GroupSum(key, field) ==
    LET n == Len(df.rows)
        acc[i \in 0..n] ==
            IF i = 0 THEN 0
            ELSE acc[i - 1]
                 + IF GroupOf(df.rows[i]) = key
                   THEN compute_sale_commission(df.rows[i], call.config)[field] ELSE 0
    IN  acc[n]

BaseIsSumOfSales(r) ==
    /\ r.Base_Commission = r.Sale_Base_Com + r.Sale_Spiffs + r.Sale_ReturningBonuses
    /\ r.Sale_Base_Com = GroupSum(<<r.Salesperson, r.Month>>, "Base_Commission")
    /\ r.Sale_Spiffs = GroupSum(<<r.Salesperson, r.Month>>, "Spiff")
    /\ r.Sale_ReturningBonuses = GroupSum(<<r.Salesperson, r.Month>>, "Returning_Bonus")

\* C7, as stated: Total_Commission is Base_Commission + Tier_Bonus +
\* Quota_Accelerator + Unit_Target_Bonus, and Base_Commission is the sum of
\* the three sums of the sales' rounded fields.
C7_TotalIsSum ==
    Returned =>
        \A g \in DOMAIN call.ret.rows :
            LET r == call.ret.rows[g] IN
            /\ r.Total_Commission =
                  r.Base_Commission + r.Tier_Bonus + r.Quota_Accelerator + r.Unit_Target_Bonus
            /\ BaseIsSumOfSales(r)

\* C7, amended: Total_Commission is that sum rounded to 2 decimals; the rest
\* as stated.
C7_TotalIsRoundedSum ==
    Returned =>
        \A g \in DOMAIN call.ret.rows :
            LET r == call.ret.rows[g] IN
            /\ r.Total_Commission =
                  Round2(r.Base_Commission + r.Tier_Bonus + r.Quota_Accelerator
                         + r.Unit_Target_Bonus)
            /\ BaseIsSumOfSales(r)

C7_Witness ==
    /\ Returned
    /\ \E g \in DOMAIN call.ret.rows :
          LET r == call.ret.rows[g] IN
          /\ r.Units = 8 /\ r.Revenue = Dollars(80000)
          /\ r.Sale_Base_Com = Dollars(920)
          /\ r.Sale_ReturningBonuses = Dollars(75)
          /\ r.Tier_Bonus = Dollars(480)
          /\ r.Unit_Target_Bonus = Dollars(500) + 4
          /\ r.Total_Commission = Dollars(1975)

\* the (Salesperson, month) pairs that occur in the caller's frame
PairsOfFrame == {GroupOf(df.rows[i]) : i \in 1..Len(df.rows)}

\* C8: with no target_month the result holds one row for each (Salesperson,
\* month) pair of the input and no other row, and a frame without sales
\* gives a result without rows, not an error.
C8_OneRowPerPair ==
    (LeaderboardCall /\ call.target_month = NoneObj) =>
        /\ Returned
        /\ {<<call.ret.rows[g].Salesperson, call.ret.rows[g].Month>> :
                g \in DOMAIN call.ret.rows} = PairsOfFrame
        /\ Len(call.ret.rows) = Cardinality(PairsOfFrame)

\* the month a target_month argument names
MonthNamed(target_month) ==
    IF "str" \in DOMAIN target_month THEN Period(target_month.str) ELSE target_month

\* C9: with a target_month the result is the rows of the unfiltered result
\* whose month is the target, unchanged; when there is none the result has
\* no rows, and no error is raised.
C9_FilterKeepsTheMonth ==
    (LeaderboardCall /\ call.target_month # NoneObj) =>
        /\ Returned
        /\ LET all == compute_leaderboard(df, NoneObj, call.config)
           IN  /\ "rows" \in DOMAIN all
               /\ call.ret.rows =
                     SelectSeq(all.rows, LAMBDA r : r.Month = MonthNamed(call.target_month))
        /\ (\A k \in PairsOfFrame : k[2] # MonthNamed(call.target_month))
              => call.ret.rows = <<>>

====
